---- MODULE Spec2Model ----
(***************************************************************************)
(* A model of the College Scorecard tools of edu-assist: the argument      *)
(* models (pydantic validators), the query-parameter builders and the      *)
(* result normalizers of schools_search, programs_search and school_detail,*)
(* and the fetch_json gateway they await.                                  *)
(*                                                                         *)
(* Python values are modelled as follows.                                  *)
(*   - Optional[T]: None is the empty tuple, a present value v is <<v>>.   *)
(*   - str: the tuple of its characters, so that strip(), upper() and      *)
(*     lower() are computed character by character; a name the code never *)
(*     looks inside (a field identifier, a school name) is one element.   *)
(*   - list: a sequence; dict with insertion order: a sequence of entries. *)
(*   - float coordinates: integers (whole degrees).                        *)
(***************************************************************************)
EXTENDS Integers, Sequences, FiniteSets, TLC

VARIABLES
  tool,        \* the tool invoked: "programs", "schools" or "detail"
  seed,        \* the process's str hash seed
  upstream,    \* the response the API gives to this invocation's request
  pc,          \* where the invocation is
  raw,         \* the raw arguments of the invocation
  args,        \* the validated argument model, None before validation
  err,         \* the exception raised, "" when none
  errMessage,  \* the message of the exception raised by fetch_json
  params,      \* the query parameters handed to fetch_json
  fetchCalls,  \* the number of fetch_json calls issued
  response,    \* the response received, None before
  cards,       \* the cards built from the rows
  result,      \* the value returned, None before
  registries,  \* the module-level registries of the process
  calls,       \* the invocations in flight together, by invocation number
  stream       \* the event generator of one /chat/stream response

\* the state of the one invocation followed on its own
single == <<tool, upstream, pc, raw, args, err, errMessage, params, fetchCalls,
            response, cards, result>>

vars == <<seed, single, registries, calls, stream>>

(***************************************************************************)
(* Bounds of the model.                                                    *)
(***************************************************************************)
MaxRows == 3
MaxLevels == 2
MaxNamed == 2
MaxIds == 2
NumSeeds == 2

(***************************************************************************)
(* Python values.                                                          *)
(***************************************************************************)
None == << >>
Some(v) == <<v>>
Get(o) == o[1]

\* bool(v) of an Optional[str]: None and "" are falsy.
TruthyStr(o) == o # None /\ Get(o) # << >>
\* bool(v) of an Optional[int]: None and 0 are falsy.
TruthyInt(o) == o # None /\ Get(o) # 0
\* bool(v) of an Optional[list]: None and [] are falsy.
TruthyList(o) == o # None /\ Get(o) # << >>

\* All sequences over S of length at most n.
SeqUpTo(S, n) == UNION {[1..k -> S] : k \in 0..n}

RECURSIVE Concat(_)
Concat(ss) == IF ss = << >> THEN << >> ELSE Head(ss) \o Concat(Tail(ss))

(***************************************************************************)
(* str methods, over tuples of characters.                                 *)
(***************************************************************************)
Whitespace == {" ", "\t", "\n"}

UpperTable ==
  [a |-> "A", b |-> "B", c |-> "C", d |-> "D", e |-> "E", f |-> "F", g |-> "G",
   h |-> "H", i |-> "I", j |-> "J", k |-> "K", l |-> "L", m |-> "M", n |-> "N",
   o |-> "O", p |-> "P", q |-> "Q", r |-> "R", s |-> "S", t |-> "T", u |-> "U",
   v |-> "V", w |-> "W", x |-> "X", y |-> "Y", z |-> "Z"]

UpperCh(ch) == IF ch \in DOMAIN UpperTable THEN UpperTable[ch] ELSE ch

LowerCh(ch) ==
  IF \E lo \in DOMAIN UpperTable : UpperTable[lo] = ch
  THEN CHOOSE lo \in DOMAIN UpperTable : UpperTable[lo] = ch
  ELSE ch

\* str.upper()
Upper(str) == [ix \in 1..Len(str) |-> UpperCh(str[ix])]
\* str.lower()
Lower(str) == [ix \in 1..Len(str) |-> LowerCh(str[ix])]

RECURSIVE LStrip(_)
LStrip(str) ==
  IF str = << >> THEN str
  ELSE IF Head(str) \in Whitespace THEN LStrip(Tail(str)) ELSE str

RECURSIVE RStrip(_)
RStrip(str) ==
  IF str = << >> THEN str
  ELSE IF str[Len(str)] \in Whitespace
       THEN RStrip(SubSeq(str, 1, Len(str) - 1)) ELSE str

\* str.strip()
Strip(str) == RStrip(LStrip(str))

Digits == <<"0", "1", "2", "3", "4", "5", "6", "7", "8", "9">>

\* str(n) of an int.
RECURSIVE NatStr(_)
NatStr(n) == IF n < 10 THEN <<Digits[n + 1]>>
             ELSE NatStr(n \div 10) \o <<Digits[(n % 10) + 1]>>

IntStr(n) == IF n < 0 THEN <<"-">> \o NatStr(0 - n) ELSE NatStr(n)

\* sep.join(parts), parts a sequence of strings.
RECURSIVE Join(_, _)
Join(sep, parts) ==
  IF parts = << >> THEN << >>
  ELSE IF Len(parts) = 1 THEN parts[1]
  ELSE parts[1] \o sep \o Join(sep, Tail(parts))

\* ",".join(map(str, ints))
JoinInts(ints) == Join(<<",">>, [ix \in 1..Len(ints) |-> IntStr(ints[ix])])

(***************************************************************************)
(* dict operations.  A dict with string keys is a function on its keys;    *)
(* d[k] = v overrides, d.get(k) is None for a missing key.                 *)
(***************************************************************************)
EmptyDict == [key \in {} |-> None]
SetItem(d, key, val) == (key :> val) @@ d
HasKey(d, key) == key \in DOMAIN d

(***************************************************************************)
(* programs_search.py: registries.                                         *)
(***************************************************************************)
FOS_FIELDS ==
  Join(<<",">>, << <<"id">>, <<"school.name">>, <<"school.city">>, <<"school.state">>,
                   <<"latest.programs.cip_6_digit.code">>,
                   <<"latest.programs.cip_6_digit.title">>,
                   <<"latest.programs.cip_6_digit.credential">>,
                   <<"latest.programs.cip_6_digit.earnings.highest_quartile">>,
                   <<"latest.programs.cip_6_digit.debt.median">> >>)

AwardLevelNames ==
  [certificate |-> <<"c","e","r","t","i","f","i","c","a","t","e">>,
   associate   |-> <<"a","s","s","o","c","i","a","t","e">>,
   bachelor    |-> <<"b","a","c","h","e","l","o","r">>,
   masters     |-> <<"m","a","s","t","e","r","s">>,
   master      |-> <<"m","a","s","t","e","r">>,
   doctoral    |-> <<"d","o","c","t","o","r","a","l">>,
   doctorate   |-> <<"d","o","c","t","o","r","a","t","e">>]

\* AWARD_LEVELS_MAP.get(name): the code list, or None for a missing key.
AWARD_LEVELS_MAP(name) ==
  CASE name = AwardLevelNames.certificate -> Some(<<1>>)
    [] name = AwardLevelNames.associate   -> Some(<<2>>)
    [] name = AwardLevelNames.bachelor    -> Some(<<3>>)
    [] name = AwardLevelNames.masters     -> Some(<<5>>)
    [] name = AwardLevelNames.master      -> Some(<<5>>)
    [] name = AwardLevelNames.doctoral    -> Some(<<6>>)
    [] name = AwardLevelNames.doctorate   -> Some(<<6>>)
    [] OTHER -> None

\* Literal["public", "private", "for-profit"] values are TLA+ strings: the
\* code only compares them and uses them as keys.
CONTROL_MAP == ("public" :> 1) @@ ("private" :> 2) @@ ("for-profit" :> 3)

(***************************************************************************)
(* programs_search.py: ProgramsSearchArgs.                                 *)
(***************************************************************************)
\* The fields of ProgramsSearchArgs in declaration order: pydantic validates
\* them in this order, and a field validator's info.data holds the fields
\* validated before its own.
ProgramsFieldOrder ==
  <<"cip_prefix", "program_text", "state", "control", "award_levels",
    "award_levels_named", "page", "per_page", "all_programs_nested">>

FieldIndex(order, name) == CHOOSE ix \in 1..Len(order) : order[ix] = name

\* info.data.get(key) while `field` is being validated.
InfoDataGet(order, validated, field, key) ==
  IF FieldIndex(order, key) < FieldIndex(order, field) THEN validated[key] ELSE None

\* _norm_state
NormState(v) == IF TruthyStr(v) THEN Some(Upper(Get(v))) ELSE v

\* _strip_text
StripText(v) == IF v # None THEN Some(Strip(Get(v))) ELSE v

\* The codes the named levels add: AWARD_LEVELS_MAP.get(name.lower()), skipped
\* when the lookup is None or an empty list.
RECURSIVE NamedCodes(_)
NamedCodes(named) ==
  IF named = << >> THEN << >>
  ELSE LET codes == AWARD_LEVELS_MAP(Lower(Head(named)))
       IN (IF TruthyList(codes) THEN Get(codes) ELSE << >>) \o NamedCodes(Tail(named))

\* Deduplicate while preserving order.
RECURSIVE Dedupe(_, _)
Dedupe(merged, seen) ==
  IF merged = << >> THEN << >>
  ELSE IF Head(merged) \in seen THEN Dedupe(Tail(merged), seen)
  ELSE <<Head(merged)>> \o Dedupe(Tail(merged), seen \cup {Head(merged)})

\* _merge_award_levels(raw_levels, info), named = info.data.get("award_levels_named")
MergeAwardLevels(raw_levels, named) ==
  LET merged  == (IF TruthyList(raw_levels) THEN Get(raw_levels) ELSE << >>)
                 \o (IF TruthyList(named) THEN NamedCodes(Get(named)) ELSE << >>)
      deduped == Dedupe(merged, {})
  IN IF deduped # << >> THEN Some(deduped) ELSE None

\* _at_least_one_filter: a mode='before' model validator, run on the raw input.
AtLeastOneFilter(values) ==
  TruthyStr(values.cip_prefix) \/ TruthyStr(values.program_text)

ErrNoFilter == "ValueError: Provide at least one filter: cip_prefix or program_text."
ErrPage == "ValidationError: page"
ErrPerPage == "ValidationError: per_page"

\* ProgramsSearchArgs(**values): the before model validator, then each field in
\* declaration order.  An absent field and an explicit null are both None: the
\* award_levels validator does not run for an absent field, which takes its
\* default None, and returns None for a null.
ValidatePrograms(values) ==
  LET validated == [cip_prefix   |-> values.cip_prefix,
                    program_text |-> StripText(values.program_text),
                    state        |-> NormState(values.state),
                    control      |-> values.control]
      levels == IF values.award_levels # None
                THEN MergeAwardLevels(values.award_levels,
                       InfoDataGet(ProgramsFieldOrder, validated, "award_levels",
                                   "award_levels_named"))
                ELSE None
      model == [cip_prefix |-> validated.cip_prefix,
                program_text |-> validated.program_text,
                state |-> validated.state, control |-> validated.control,
                award_levels |-> levels,
                award_levels_named |-> values.award_levels_named,
                page |-> values.page, per_page |-> values.per_page,
                all_programs_nested |-> values.all_programs_nested]
  IN IF ~AtLeastOneFilter(values) THEN [err |-> ErrNoFilter, args |-> None]
     ELSE IF values.page < 0 THEN [err |-> ErrPage, args |-> None]
     ELSE IF values.per_page < 1 \/ values.per_page > 100
          THEN [err |-> ErrPerPage, args |-> None]
     ELSE [err |-> "", args |-> Some(model)]

(***************************************************************************)
(* scorecard_base.py                                                       *)
(***************************************************************************)
\* get_key() with COLLEGE_SCORECARD_API_KEY unset.
GetKey == "DEMO_KEY"

(***************************************************************************)
(* programs_search.py: programs_search, steps 1-4 (the parameters).        *)
(***************************************************************************)
BuildProgramsParams(a) ==
  LET p0 == ("api_key" :> GetKey) @@ ("fields" :> FOS_FIELDS)
            @@ ("_per_page" :> a.per_page) @@ ("page" :> a.page)
      p1 == IF a.all_programs_nested
            THEN SetItem(p0, "all_programs_nested", "true") ELSE p0
      p2 == IF TruthyStr(a.cip_prefix)
            THEN SetItem(p1, "latest.programs.cip_6_digit.code", Get(a.cip_prefix))
            ELSE p1
      p3 == IF TruthyStr(a.program_text)
            THEN SetItem(p2, "latest.programs.cip_6_digit.title__contains",
                         Get(a.program_text))
            ELSE p2
      p4 == IF TruthyStr(a.state) THEN SetItem(p3, "school.state", Get(a.state)) ELSE p3
      p5 == IF a.control # None
            THEN SetItem(p4, "school.control", CONTROL_MAP[Get(a.control)]) ELSE p4
      p6 == IF TruthyList(a.award_levels)
            THEN SetItem(p5, "latest.programs.cip_6_digit.credential__in",
                         JoinInts(Get(a.award_levels)))
            ELSE p5
  IN p6

(***************************************************************************)
(* programs_search.py: programs_search, step 6 (grouping rows into cards). *)
(***************************************************************************)
NewProgramCard(row) ==
  [id |-> Get(row.id), name |-> row.name, city |-> row.city, state |-> row.state,
   programs |-> << >>]

RowProgram(row) ==
  [cip |-> row.cip, title |-> row.title, credential |-> row.credential,
   earnings_high_q |-> row.earnings_high_q, debt_median |-> row.debt_median]

\* The test written with "is not None" in place of truthiness.
HasCipOrTitleNotNone(prog) == prog.cip # None \/ prog.title # None

\* if prog["cip"] or prog["title"]
HasCipOrTitle(prog) == TruthyStr(prog.cip) \/ TruthyStr(prog.title)

\* by_id.get(inst_id): the position of the card in the insertion-ordered dict,
\* 0 when there is none.
ByIdGet(by_id, inst_id) ==
  IF \E k \in 1..Len(by_id) : by_id[k].id = inst_id
  THEN CHOOSE k \in 1..Len(by_id) : by_id[k].id = inst_id
  ELSE 0

\* GroupRow that makes the card of an institution only for a row with a
\* program, and lets every such row set the card's name, city and state.
GroupRowCardFromPrograms(by_id, row) ==
  IF row.id = None \/ ~HasCipOrTitle(RowProgram(row)) THEN by_id
  ELSE LET withCard == IF ByIdGet(by_id, Get(row.id)) = 0
                       THEN Append(by_id, NewProgramCard(row)) ELSE by_id
           k        == ByIdGet(withCard, Get(row.id))
       IN [withCard EXCEPT ![k].programs = Append(@, RowProgram(row)),
                           ![k].name = row.name, ![k].city = row.city,
                           ![k].state = row.state]

\* GroupRow with "if not inst_id" as the test of a missing identifier.
GroupRowDropsFalsyId(by_id, row) ==
  IF row.id = None \/ row.id = Some(0) THEN by_id
  ELSE LET withCard == IF ByIdGet(by_id, Get(row.id)) = 0
                       THEN Append(by_id, NewProgramCard(row)) ELSE by_id
           k        == ByIdGet(withCard, Get(row.id))
           prog     == RowProgram(row)
       IN IF HasCipOrTitle(prog)
          THEN [withCard EXCEPT ![k].programs = Append(@, prog)]
          ELSE withCard

\* GroupRow with a new card put in front of the cards seen so far.
GroupRowPrepend(by_id, row) ==
  IF row.id = None THEN by_id
  ELSE LET withCard == IF ByIdGet(by_id, Get(row.id)) = 0
                       THEN <<NewProgramCard(row)>> \o by_id ELSE by_id
           k        == ByIdGet(withCard, Get(row.id))
           prog     == RowProgram(row)
       IN IF HasCipOrTitle(prog)
          THEN [withCard EXCEPT ![k].programs = Append(@, prog)]
          ELSE withCard

\* One pass of the loop body over a row.
GroupRow(by_id, row) ==
  IF row.id = None THEN by_id
  ELSE LET withCard == IF ByIdGet(by_id, Get(row.id)) = 0
                       THEN Append(by_id, NewProgramCard(row)) ELSE by_id
           k        == ByIdGet(withCard, Get(row.id))
           prog     == RowProgram(row)
       IN IF HasCipOrTitle(prog)
          THEN [withCard EXCEPT ![k].programs = Append(@, prog)]
          ELSE withCard

\* for row in data.get("results", []): ...; cards = list(by_id.values())
RECURSIVE GroupRows(_, _)
GroupRows(rows, by_id) ==
  IF rows = << >> THEN by_id
  ELSE GroupRows(Tail(rows), GroupRow(by_id, Head(rows)))

(***************************************************************************)
(* programs_search.py: programs_search, step 7 (the returned text, kept as *)
(* the values the f-strings interpolate).                                  *)
(***************************************************************************)
\* data.get("metadata", {}).get(key, default)
MetaGet(data, key, default) ==
  IF data.metadata # None /\ Get(data.metadata)[key] # None
  THEN Get(Get(data.metadata)[key]) ELSE default

CredLabel(cred) ==
  CASE cred = 1 -> <<"Certificate">> [] cred = 2 -> <<"Associate">>
    [] cred = 3 -> <<"Bachelor's">>  [] cred = 4 -> <<"Post-bacc Cert">>
    [] cred = 5 -> <<"Master's">>    [] cred = 6 -> <<"Doctoral">>
    [] OTHER -> <<"Level ">> \o IntStr(cred)

FormatProgram(prog) ==
  [title |-> prog.title, cip |-> prog.cip,
   credential |-> IF TruthyInt(prog.credential)
                  THEN Some(CredLabel(Get(prog.credential))) ELSE None,
   earnings |-> IF TruthyInt(prog.earnings_high_q) THEN prog.earnings_high_q ELSE None]

FormatProgramCard(card) ==
  [name |-> card.name, id |-> card.id,
   location |-> IF TruthyStr(card.city) /\ TruthyStr(card.state)
                THEN Some(<<Get(card.city), Get(card.state)>>) ELSE None,
   programs |-> [j \in 1..Len(card.programs) |-> FormatProgram(card.programs[j])]]

FormatPrograms(cs, data, a) ==
  IF cs = << >> THEN [kind |-> "no_programs_found"]
  ELSE LET total_results == MetaGet(data, "total", Len(cs))
           current_page  == MetaGet(data, "page", a.page)
       IN [kind |-> "summary", total |-> total_results,
           showing_page |-> current_page + 1, shown |-> Len(cs),
           items |-> [k \in 1..Len(cs) |-> FormatProgramCard(cs[k])],
           hint |-> IF Len(cs) < total_results THEN Some(current_page + 1) ELSE None]

(***************************************************************************)
(* scorecard_base.py: fetch_json.  A response of the API is either a       *)
(* timeout of the 25 s budget or an HTTP response with a status, its body  *)
(* text and, when the body parses as JSON, the document.                   *)
(***************************************************************************)
\* f"College Scorecard API error {response.status}: {text}"
ApiErrorMessage(status, text) ==
  <<"College Scorecard API error ">> \o IntStr(status) \o <<": ">> \o text

\* The message of the library exceptions (timeout, JSON decoding) is not
\* looked at and is the empty string here.
FetchJsonStatusOnly(resp) ==
  IF resp.timeout
  THEN [raised |-> "TimeoutError", message |-> << >>, data |-> None]
  ELSE IF resp.status # 200
  THEN [raised |-> "RuntimeError",
        message |-> <<"College Scorecard API error ">> \o IntStr(resp.status),
        data |-> None]
  ELSE IF resp.json = None
  THEN [raised |-> "ContentTypeError", message |-> << >>, data |-> None]
  ELSE [raised |-> "", message |-> << >>, data |-> resp.json]

FetchJson(resp) ==
  IF resp.timeout
  THEN [raised |-> "TimeoutError", message |-> << >>, data |-> None]
  ELSE IF resp.status # 200
  THEN [raised |-> "RuntimeError",
        message |-> ApiErrorMessage(resp.status, resp.text), data |-> None]
  ELSE IF resp.json = None
  THEN [raised |-> "ContentTypeError", message |-> << >>, data |-> None]
  ELSE [raised |-> "", message |-> << >>, data |-> resp.json]

\* scorecard_base.py: fetch_json_sync, the requests version of the gateway.
FetchJsonSync(resp) ==
  IF resp.timeout
  THEN [raised |-> "Timeout", message |-> << >>, data |-> None]
  ELSE IF resp.status # 200
  THEN [raised |-> "RuntimeError",
        message |-> ApiErrorMessage(resp.status, resp.text), data |-> None]
  ELSE IF resp.json = None
  THEN [raised |-> "JSONDecodeError", message |-> << >>, data |-> None]
  ELSE [raised |-> "", message |-> << >>, data |-> resp.json]

(***************************************************************************)
(* Field lists.  A comma-bearing field string is the tuple of its field    *)
(* identifiers and "," separators.                                         *)
(***************************************************************************)
\* str.split(",")
RECURSIVE Split(_)
Split(str) ==
  IF \E ix \in 1..Len(str) : str[ix] = ","
  THEN LET ix == CHOOSE c \in 1..Len(str) :
                   str[c] = "," /\ \A b \in 1..(c - 1) : str[b] # ","
       IN <<SubSeq(str, 1, ix - 1)>> \o Split(SubSeq(str, ix + 1, Len(str)))
  ELSE <<str>>

\* The iteration order of a set of str is fixed by the process's hash seed and
\* not by the program: the elements in first-insertion order, rotated by the
\* seed, stand for the orders a run can show.
RECURSIVE Rotate(_, _)
Rotate(seq, n) ==
  IF seq = << >> \/ n = 0 THEN seq ELSE Rotate(Tail(seq) \o <<Head(seq)>>, n - 1)

\* A list comprehension in place of the set comprehension: no element is
\* dropped.
SetIterOrderKeepDuplicates(inserted, hashSeed) ==
  IF inserted = << >> THEN inserted ELSE Rotate(inserted, hashSeed % Len(inserted))

SetIterOrder(inserted, hashSeed) ==
  LET distinct == Dedupe(inserted, {})
  IN IF distinct = << >> THEN distinct ELSE Rotate(distinct, hashSeed % Len(distinct))

(***************************************************************************)
(* schools_search.py: registry and SchoolsSearchArgs.                      *)
(***************************************************************************)
FIELDSETS ==
  ("basic" :> <<"id", ",", "school.name", ",", "school.city", ",", "school.state", ",",
                "location.lat", ",", "location.lon", ",", "school.school_url">>)
  @@ ("admissions" :> <<"latest.admissions.admission_rate.overall", ",",
                        "latest.admissions.sat_scores.average.overall">>)
  @@ ("costs" :> <<"latest.cost.tuition.in_state", ",", "latest.cost.tuition.out_of_state",
                   ",", "latest.cost.net_price.public", ",",
                   "latest.cost.net_price.private">>)
  @@ ("outcomes" :> <<"latest.completion.rate_suppressed.overall", ",",
                      "latest.earnings.10_yrs_after_entry.median">>)

ErrLocationMode ==
  "ValueError: Specify exactly one location mode: (1) state, (2) city+state, or (3) lat+lon."
ErrBothLatLon == "ValueError: Both latitude and longitude are required for lat/lon search."
ErrLatitude == "ValidationError: latitude"
ErrLongitude == "ValidationError: longitude"
ErrDistance == "ValidationError: distance_mi"

\* int(True) + int(False) + ...
BoolSum(bools) == Cardinality({ix \in 1..Len(bools) : bools[ix]})

\* A validator that counts a city without state as the state-only mode.
ValidateLocationModeCityAlone(values) ==
  LET lat   == values.latitude
      lon   == values.longitude
      city  == values.city
      state == values.state
      has_latlon     == lat # None \/ lon # None
      has_citystate  == TruthyStr(city) /\ TruthyStr(state)
      has_state_only == (state # None \/ city # None) /\ ~has_citystate /\ ~has_latlon
      modes == <<has_latlon, has_citystate, has_state_only>>
  IN IF BoolSum(modes) # 1 THEN ErrLocationMode
     ELSE IF has_latlon /\ (lat = None \/ lon = None) THEN ErrBothLatLon
     ELSE ""

\* _validate_location_mode with has_latlon requiring both coordinates.
ValidateLocationModeBothCoords(values) ==
  LET lat   == values.latitude
      lon   == values.longitude
      city  == values.city
      state == values.state
      has_latlon     == lat # None /\ lon # None
      has_citystate  == TruthyStr(city) /\ TruthyStr(state)
      has_state_only == state # None /\ city = None /\ ~has_latlon
      modes == <<has_latlon, has_citystate, has_state_only>>
  IN IF BoolSum(modes) # 1 THEN ErrLocationMode
     ELSE IF has_latlon /\ (lat = None \/ lon = None) THEN ErrBothLatLon
     ELSE ""

\* _validate_location_mode: a mode='before' model validator, run on the raw
\* input.  The result is the error raised, "" when it returns the values.
ValidateLocationMode(values) ==
  LET lat   == values.latitude
      lon   == values.longitude
      city  == values.city
      state == values.state
      has_latlon     == lat # None \/ lon # None
      has_citystate  == TruthyStr(city) /\ TruthyStr(state)
      has_state_only == state # None /\ city = None /\ ~has_latlon
      modes == <<has_latlon, has_citystate, has_state_only>>
  IN IF BoolSum(modes) # 1 THEN ErrLocationMode
     ELSE IF has_latlon /\ (lat = None \/ lon = None) THEN ErrBothLatLon
     ELSE ""

\* The constraints of the field types: confloat and conint ranges.
SchoolsFieldError(values) ==
  IF values.latitude # None /\ (Get(values.latitude) < -90 \/ Get(values.latitude) > 90)
  THEN ErrLatitude
  ELSE IF values.longitude # None
          /\ (Get(values.longitude) < -180 \/ Get(values.longitude) > 180)
  THEN ErrLongitude
  ELSE IF values.distance_mi < 1 \/ values.distance_mi > 500 THEN ErrDistance
  ELSE IF values.page < 0 THEN ErrPage
  ELSE IF values.per_page < 1 \/ values.per_page > 100 THEN ErrPerPage
  ELSE ""

\* SchoolsSearchArgs(**values)
ValidateSchools(values) ==
  IF ValidateLocationMode(values) # ""
  THEN [err |-> ValidateLocationMode(values), args |-> None]
  ELSE IF SchoolsFieldError(values) # ""
  THEN [err |-> SchoolsFieldError(values), args |-> None]
  ELSE [err |-> "", args |-> Some(values)]

(***************************************************************************)
(* schools_search.py: schools_search, steps 1-4 (the parameters).          *)
(***************************************************************************)
\* {f for p in profiles for f in FIELDSETS[p].split(",")}, in insertion order
SchoolsFieldList(profiles) ==
  Concat([ix \in 1..Len(profiles) |-> Split(FIELDSETS[profiles[ix]])])

\* Location parameters that send the state as it was given.
LocationParamsStateAsGiven(a, p) ==
  IF a.latitude # None /\ a.longitude # None
  THEN [raised |-> "",
        params |-> SetItem(SetItem(SetItem(p, "latitude", Get(a.latitude)),
                                   "longitude", Get(a.longitude)),
                           "distance", IntStr(a.distance_mi) \o <<"m", "i">>)]
  ELSE IF TruthyStr(a.city) /\ TruthyStr(a.state)
  THEN [raised |-> "",
        params |-> SetItem(SetItem(p, "school.city", Get(a.city)),
                           "school.state", Get(a.state))]
  ELSE IF a.state = None THEN [raised |-> "AttributeError", params |-> p]
  ELSE [raised |-> "", params |-> SetItem(p, "school.state", Get(a.state))]

\* Step 2: the location parameters; raised is the exception of
\* None.upper() when the last branch finds no state.
LocationParams(a, p) ==
  IF a.latitude # None /\ a.longitude # None
  THEN [raised |-> "",
        params |-> SetItem(SetItem(SetItem(p, "latitude", Get(a.latitude)),
                                   "longitude", Get(a.longitude)),
                           "distance", IntStr(a.distance_mi) \o <<"m", "i">>)]
  ELSE IF TruthyStr(a.city) /\ TruthyStr(a.state)
  THEN [raised |-> "",
        params |-> SetItem(SetItem(p, "school.city", Get(a.city)),
                           "school.state", Upper(Get(a.state)))]
  ELSE IF a.state = None THEN [raised |-> "AttributeError", params |-> p]
  ELSE [raised |-> "", params |-> SetItem(p, "school.state", Upper(Get(a.state)))]

IntOr(o, default) == IF TruthyInt(o) THEN Get(o) ELSE default

\* A local map that has drifted from CONTROL_MAP of programs_search.
control_map_drifted == ("public" :> 1) @@ ("private" :> 3) @@ ("for-profit" :> 2)

\* control_map = {"public": 1, "private": 2, "for-profit": 3}, local to step 3
control_map == ("public" :> 1) @@ ("private" :> 2) @@ ("for-profit" :> 3)

\* A sort value that always carries its direction.
SortValueAlwaysSuffix(sort_by, sort_order) == <<sort_by, ":", sort_order>>

\* order = "" if sort_order == "asc" else "desc";
\* f"{sort_by}:{order}" if order else sort_by
SortValue(sort_by, sort_order) ==
  IF sort_order = "asc" THEN <<sort_by>> ELSE <<sort_by, ":", "desc">>

BuildSchoolsParams(a, hashSeed) ==
  LET p0 == ("api_key" :> GetKey) @@ ("_per_page" :> a.per_page) @@ ("page" :> a.page)
            @@ ("fields" :> Join(<<",">>,
                                 SetIterOrder(SchoolsFieldList(a.profiles), hashSeed)))
      loc == LocationParams(a, p0)
      p2 == loc.params
      p3 == IF a.control # None
            THEN SetItem(p2, "school.control", control_map[Get(a.control)]) ELSE p2
      p4 == IF TruthyInt(a.min_size) \/ TruthyInt(a.max_size)
            THEN SetItem(p3, "latest.student.size__range",
                         IntStr(IntOr(a.min_size, 0)) \o <<".", ".">>
                         \o IntStr(IntOr(a.max_size, 999999)))
            ELSE p3
      p5 == IF a.online_only # None
            THEN SetItem(p4, "school.online_only", IF Get(a.online_only) THEN 1 ELSE 0)
            ELSE p4
      p6 == IF a.sort_by # None
            THEN SetItem(p5, "sort",
                         SortValue(Get(a.sort_by), a.sort_order))
            ELSE p5
  IN [raised |-> loc.raised, params |-> IF loc.raised = "" THEN p6 ELSE p0]

(***************************************************************************)
(* schools_search.py: schools_search, step 6 (cards and returned text).    *)
(***************************************************************************)
SchoolCard(r) ==
  [id |-> r.id, name |-> r.name, city |-> r.city, state |-> r.state, url |-> r.url]

SchoolCards(results) == [ix \in 1..Len(results) |-> SchoolCard(results[ix])]

FormatSchoolCard(card) ==
  [header |-> IF TruthyStr(card.name) THEN Some(<<Get(card.name), card.id>>) ELSE None,
   location |-> IF TruthyStr(card.city) /\ TruthyStr(card.state)
                THEN Some(<<Get(card.city), Get(card.state)>>) ELSE None,
   url |-> IF TruthyStr(card.url) THEN card.url ELSE None]

\* FormatSchools without the early return for an empty result list.
FormatSchoolsNoEmptyCheck(data, a) ==
  [kind |-> "summary", total |-> MetaGet(data, "total", Len(data.results)),
   showing_page |-> MetaGet(data, "page", a.page) + 1, shown |-> Len(data.results),
   items |-> [k \in 1..Len(data.results) |->
                FormatSchoolCard(SchoolCard(data.results[k]))],
   hint |-> IF Len(data.results) < MetaGet(data, "total", Len(data.results))
            THEN Some(MetaGet(data, "page", a.page) + 1) ELSE None]

FormatSchools(data, a) ==
  LET results == data.results
  IN IF results = << >> THEN [kind |-> "no_schools_found"]
     ELSE LET total_results == MetaGet(data, "total", Len(results))
              current_page  == MetaGet(data, "page", a.page)
          IN [kind |-> "summary", total |-> total_results,
              showing_page |-> current_page + 1, shown |-> Len(results),
              items |-> [k \in 1..Len(results) |->
                           FormatSchoolCard(SchoolCard(results[k]))],
              hint |-> IF Len(results) < total_results
                       THEN Some(current_page + 1) ELSE None]

(***************************************************************************)
(* school_detail.py                                                        *)
(***************************************************************************)
PROFILES ==
  ("basic" :> <<"id", ",", "school.name", ",", "school.city", ",", "school.state", ",",
                "school.school_url", ",", "location.lat", ",", "location.lon">>)
  @@ ("admissions" :> <<"latest.admissions.admission_rate.overall", ",",
                        "latest.admissions.sat_scores.average.overall">>)
  @@ ("costs" :> <<"latest.cost.tuition.in_state", ",", "latest.cost.tuition.out_of_state",
                   ",", "latest.cost.net_price.public", ",",
                   "latest.cost.net_price.private">>)
  @@ ("outcomes" :> <<"latest.completion.rate_suppressed.overall", ",",
                      "latest.earnings.10_yrs_after_entry.median">>)

\* PROFILES.get(p, PROFILES["basic"])
ProfilesGetDefaultBasic(p) == IF p \in DOMAIN PROFILES THEN PROFILES[p] ELSE PROFILES["basic"]

\* PROFILES.get(p, "")
ProfilesGet(p) == IF p \in DOMAIN PROFILES THEN PROFILES[p] ELSE << >>

ErrIdsRequired == "ValidationError: ids: Field required"

\* SchoolDetailArgs(**values): ids is required (Field(...)) and a List[int];
\* no validator constrains its length.
ValidateDetail(values) ==
  IF values.ids = None THEN [err |-> ErrIdsRequired, args |-> None]
  ELSE [err |-> "", args |-> Some([ids |-> Get(values.ids), profiles |-> values.profiles])]

\* f for p in args.profiles for f in PROFILES.get(p, "").split(",") if f
DetailFieldList(profiles) ==
  SelectSeq(Concat([ix \in 1..Len(profiles) |-> Split(ProfilesGet(profiles[ix]))]),
            LAMBDA f : f # << >>)

BuildDetailParams(a, hashSeed) ==
  ("api_key" :> GetKey) @@ ("id__in" :> JoinInts(a.ids))
  @@ ("fields" :> Join(<<",">>, SetIterOrder(DetailFieldList(a.profiles), hashSeed)))

FormatSchoolDetail(school) ==
  [name |-> IF TruthyStr(school.name) THEN school.name ELSE None,
   location |-> IF TruthyStr(school.city) /\ TruthyStr(school.state)
                THEN Some(<<Get(school.city), Get(school.state)>>) ELSE None,
   admission_rate |-> IF TruthyInt(school.admission_rate)
                      THEN school.admission_rate ELSE None,
   tuition_in_state |-> IF TruthyInt(school.tuition_in_state)
                        THEN school.tuition_in_state ELSE None,
   tuition_out_of_state |-> IF TruthyInt(school.tuition_out_of_state)
                            THEN school.tuition_out_of_state ELSE None,
   earnings |-> IF TruthyInt(school.earnings) THEN school.earnings ELSE None]

FormatDetail(data, a) ==
  IF data.results = << >> THEN [kind |-> "no_schools_for_ids", ids |-> a.ids]
  ELSE [kind |-> "details",
        items |-> [k \in 1..Len(data.results) |-> FormatSchoolDetail(data.results[k])]]

(***************************************************************************)
(* meta.py: meta_fields reports the profiles of school_detail.             *)
(***************************************************************************)
\* {name: fields.split(",") for name, fields in PROFILES.items()}
MetaFieldsProfiles == [name \in DOMAIN PROFILES |-> Split(PROFILES[name])]

\* {k: v for k, v in CONTROL_MAP.items()}
MetaEnumsControls == [k \in DOMAIN CONTROL_MAP |-> CONTROL_MAP[k]]

(***************************************************************************)
(* The module-level dictionaries and strings, as they are after import.    *)
(***************************************************************************)
Registries ==
  [FOS_FIELDS |-> FOS_FIELDS,
   AWARD_LEVELS_MAP |-> [n \in {AwardLevelNames[k] : k \in DOMAIN AwardLevelNames}
                           |-> AWARD_LEVELS_MAP(n)],
   CONTROL_MAP |-> CONTROL_MAP,
   FIELDSETS |-> FIELDSETS,
   PROFILES |-> PROFILES]

(***************************************************************************)
(* web_app.py: stream_chat.event_generator.  The generator's position, the *)
(* types of the events it has yielded, the number of agent events it has   *)
(* taken, and the exception that ended it ("" when none).                  *)
(***************************************************************************)
StreamIdle == [pc |-> "idle", sent |-> << >>, consumed |-> 0, raised |-> ""]

(***************************************************************************)
(* The inputs explored: raw arguments and API responses.                   *)
(***************************************************************************)
S_1101 == <<"1", "1", ".", "0", "1">>
S_cs == <<"c", "s">>
S_ny == <<"n", "y">>
S_Bachelor == <<"B", "a", "c", "h", "e", "l", "o", "r">>
S_unknown_level == <<"u", "n", "k", "n", "o", "w", "n", "-", "l", "e", "v", "e", "l">>

ProgramsBase ==
  [cip_prefix |-> Some(S_1101), program_text |-> None, state |-> None,
   control |-> None, award_levels |-> None, award_levels_named |-> None,
   page |-> 0, per_page |-> 10, all_programs_nested |-> FALSE]

CipValues == {None, Some(<< >>), Some(<<" ">>), Some(S_1101)}
TextValues == {None, Some(<< >>), Some(<<" ", " ">>), Some(S_cs),
               Some(<<" ">> \o S_cs \o <<" ">>)}
LevelValues == {None} \cup {Some(x) : x \in SeqUpTo({2, 3}, MaxLevels)}
NamedValues ==
  {None} \cup {Some(x) : x \in SeqUpTo({AwardLevelNames.bachelor, S_Bachelor,
                                        S_unknown_level}, MaxNamed)}

ProgramsFilterRequests ==
  {[ProgramsBase EXCEPT !.cip_prefix = c, !.program_text = t] :
     c \in CipValues, t \in TextValues}

ProgramsAwardRequests ==
  {[ProgramsBase EXCEPT !.award_levels = l, !.award_levels_named = n] :
     l \in LevelValues, n \in NamedValues}

ProgramsOtherRequests ==
  {[ProgramsBase EXCEPT !.state = st, !.control = ct, !.all_programs_nested = nested] :
     st \in {None, Some(S_ny)}, ct \in {None, Some("public"), Some("for-profit")},
     nested \in BOOLEAN}
  \cup {[ProgramsBase EXCEPT !.page = pg, !.per_page = pp] :
          pg \in {-1, 0, 2}, pp \in {0, 10, 100, 101}}

ProgramsRequests ==
  ProgramsFilterRequests \cup ProgramsAwardRequests \cup ProgramsOtherRequests

ProgramRowPool ==
  {[id |-> Some(10), name |-> Some(<<"Alpha">>), city |-> Some(<<"Rochester">>),
    state |-> Some(<<"NY">>), cip |-> Some(<<"1", "1", ".", "0", "1", "0", "1">>),
    title |-> Some(<<"C", "S">>), credential |-> Some(3),
    earnings_high_q |-> Some(9), debt_median |-> Some(1)],
   [id |-> Some(11), name |-> Some(<<"Beta">>), city |-> None,
    state |-> Some(<<"NY">>), cip |-> Some(<<"5", "1">>), title |-> None,
    credential |-> Some(7), earnings_high_q |-> None, debt_median |-> None],
   [id |-> Some(10), name |-> Some(<<"Alpha College">>), city |-> Some(<<"Buffalo">>),
    state |-> Some(<<"NY">>), cip |-> None, title |-> Some(<<"I", "T">>),
    credential |-> None, earnings_high_q |-> Some(0), debt_median |-> None],
   [id |-> Some(10), name |-> Some(<<"Alpha">>), city |-> Some(<<"Rochester">>),
    state |-> Some(<<"NY">>), cip |-> Some(<< >>), title |-> None,
    credential |-> None, earnings_high_q |-> None, debt_median |-> None],
   [id |-> Some(11), name |-> Some(<<"Beta">>), city |-> None,
    state |-> Some(<<"NY">>), cip |-> Some(<<" ">>), title |-> Some(<< >>),
    credential |-> Some(2), earnings_high_q |-> None, debt_median |-> None],
   [id |-> None, name |-> Some(<<"Gamma">>), city |-> None, state |-> None,
    cip |-> Some(<<"1", "1">>), title |-> Some(<<"C", "S">>), credential |-> Some(3),
    earnings_high_q |-> None, debt_median |-> None],
   [id |-> Some(0), name |-> None, city |-> None, state |-> None,
    cip |-> None, title |-> None, credential |-> None,
    earnings_high_q |-> None, debt_median |-> None]}

MetaValues ==
  {None,
   Some([total |-> Some(57), page |-> Some(2), per_page |-> Some(10)]),
   Some([total |-> None, page |-> None, per_page |-> None])}

Docs(rowPool) ==
  {[results |-> rows, metadata |-> md] : rows \in SeqUpTo(rowPool, MaxRows),
                                         md \in MetaValues}

OkResponse(doc) ==
  [timeout |-> FALSE, status |-> 200, text |-> <<"{...}">>, json |-> Some(doc)]

FailureResponses ==
  {[timeout |-> TRUE, status |-> 0, text |-> << >>, json |-> None],
   [timeout |-> FALSE, status |-> 200, text |-> <<"<html>">>, json |-> None],
   [timeout |-> FALSE, status |-> 404, text |-> <<"Not Found">>, json |-> None],
   [timeout |-> FALSE, status |-> 500, text |-> <<"Server Error">>, json |-> None]}

\* The responses tried with every request: the failures, a document without
\* rows and a document with one row.
FewResponses(rowPool) ==
  FailureResponses
  \cup {OkResponse([results |-> rows, metadata |-> None]) :
          rows \in SeqUpTo(rowPool, 1)}

AllResponses(rowPool) == FailureResponses \cup {OkResponse(d) : d \in Docs(rowPool)}

SchoolsBase ==
  [state |-> Some(S_ny), city |-> None, latitude |-> None, longitude |-> None,
   distance_mi |-> 25, control |-> None, min_size |-> None, max_size |-> None,
   online_only |-> None, sort_by |-> None, sort_order |-> "asc", page |-> 0,
   per_page |-> 10, profiles |-> <<"basic">>]

SchoolsLocationRequests ==
  {[SchoolsBase EXCEPT !.state = st, !.city = ci, !.latitude = la, !.longitude = lo] :
     st \in {None, Some(<< >>), Some(S_ny)},
     ci \in {None, Some(<< >>), Some(<<"Rochester">>)},
     la \in {None, Some(0), Some(43), Some(95)},
     lo \in {None, Some(-77)}}

SchoolsOtherRequests ==
  {[SchoolsBase EXCEPT !.control = ct, !.min_size = lo, !.max_size = hi,
                       !.online_only = oo] :
     ct \in {None, Some("private")}, lo \in {None, Some(0), Some(100)},
     hi \in {None, Some(0), Some(5000)}, oo \in {None, Some(TRUE), Some(FALSE)}}
  \cup {[SchoolsBase EXCEPT !.sort_by = sb, !.sort_order = so, !.page = pg,
                            !.per_page = pp, !.distance_mi = di] :
          sb \in {None, Some("latest.cost.net_price.public")}, so \in {"asc", "desc"},
          pg \in {-1, 3}, pp \in {0, 25}, di \in {0, 25}}
  \cup {[SchoolsBase EXCEPT !.profiles = pr] :
          pr \in SeqUpTo({"basic", "costs"}, 2)}

SchoolsRequests == SchoolsLocationRequests \cup SchoolsOtherRequests

SchoolRowPool ==
  {[id |-> Some(194091), name |-> Some(<<"Alpha">>), city |-> Some(<<"Rochester">>),
    state |-> Some(<<"NY">>), url |-> Some(<<"alpha.edu">>)],
   [id |-> Some(194824), name |-> None, city |-> Some(<<"Buffalo">>),
    state |-> Some(<<"NY">>), url |-> None],
   [id |-> None, name |-> Some(<<"Gamma">>), city |-> None, state |-> None,
    url |-> Some(<< >>)]}

DetailBase == [ids |-> Some(<<194091>>), profiles |-> <<"basic">>]

DetailRequests ==
  {[ids |-> is, profiles |-> pr] :
     is \in {None} \cup {Some(x) : x \in SeqUpTo({0, 194091, 194824}, MaxIds)},
     pr \in SeqUpTo({"basic", "costs", "bogus"}, 2)}

DetailRowPool ==
  {[name |-> Some(<<"Alpha">>), city |-> Some(<<"Rochester">>), state |-> Some(<<"NY">>),
    admission_rate |-> Some(35), tuition_in_state |-> Some(9000),
    tuition_out_of_state |-> Some(19000), earnings |-> Some(52000)],
   [name |-> None, city |-> Some(<<"Buffalo">>), state |-> None,
    admission_rate |-> Some(0), tuition_in_state |-> None,
    tuition_out_of_state |-> Some(0), earnings |-> None]}

\* An invocation and the response the API has for it.  Every request is tried
\* with the few responses, and the base request of each tool with every
\* response.
Scenarios ==
  {[tool |-> "programs", seed |-> 0, raw |-> rq, upstream |-> rs] :
     rq \in ProgramsRequests, rs \in FewResponses(ProgramRowPool)}
  \cup {[tool |-> "programs", seed |-> 0, raw |-> rq, upstream |-> rs] :
          rq \in {ProgramsBase, [ProgramsBase EXCEPT !.page = 2]},
          rs \in AllResponses(ProgramRowPool)}
  \cup {[tool |-> "schools", seed |-> sd, raw |-> rq, upstream |-> rs] :
          sd \in 0..(NumSeeds - 1), rq \in SchoolsRequests,
          rs \in FewResponses(SchoolRowPool)}
  \cup {[tool |-> "schools", seed |-> 0, raw |-> rq, upstream |-> rs] :
          rq \in {SchoolsBase, [SchoolsBase EXCEPT !.page = 3]},
          rs \in AllResponses(SchoolRowPool)}
  \cup {[tool |-> "detail", seed |-> sd, raw |-> rq, upstream |-> rs] :
          sd \in 0..(NumSeeds - 1), rq \in DetailRequests,
          rs \in FewResponses(DetailRowPool)}
  \cup {[tool |-> "detail", seed |-> 0, raw |-> DetailBase, upstream |-> rs] :
          rs \in AllResponses(DetailRowPool)}

(***************************************************************************)
(* The state machine of one tool invocation.                               *)
(***************************************************************************)
Init ==
  \E sc \in Scenarios :
    /\ tool = sc.tool
    /\ seed = sc.seed
    /\ raw = sc.raw
    /\ upstream = sc.upstream
    /\ pc = "call"
    /\ args = None
    /\ err = ""
    /\ errMessage = << >>
    /\ params = EmptyDict
    /\ fetchCalls = 0
    /\ response = None
    /\ cards = << >>
    /\ result = None
    /\ registries = Registries
    /\ calls = << >>
    /\ stream = StreamIdle

\* The argument model is constructed from the raw arguments.
Validate(name, validation) ==
  /\ tool = name
  /\ pc = "call"
  /\ args' = validation.args
  /\ err' = validation.err
  /\ pc' = IF validation.err = "" THEN "validated" ELSE "rejected"
  /\ UNCHANGED <<tool, seed, upstream, raw, errMessage, params, fetchCalls, response,
                 cards, result, registries, calls, stream>>

ProgramsValidate == Validate("programs", ValidatePrograms(raw))
SchoolsValidate == Validate("schools", ValidateSchools(raw))
DetailValidate == Validate("detail", ValidateDetail(raw))

\* The tool body up to its await: the parameters are built and fetch_json is
\* called with them.
Request(name, built) ==
  /\ tool = name
  /\ pc = "validated"
  /\ IF built.raised = ""
     THEN /\ params' = built.params
          /\ fetchCalls' = fetchCalls + 1
          /\ pc' = "awaiting"
          /\ err' = err
     ELSE /\ err' = built.raised
          /\ pc' = "raised"
          /\ UNCHANGED <<params, fetchCalls>>
  /\ UNCHANGED <<tool, seed, upstream, raw, args, errMessage, response, cards, result,
                 registries, calls, stream>>

ProgramsRequest ==
  Request("programs", [raised |-> "", params |-> BuildProgramsParams(Get(args))])
SchoolsRequest == Request("schools", BuildSchoolsParams(Get(args), seed))
DetailRequest ==
  Request("detail", [raised |-> "", params |-> BuildDetailParams(Get(args), seed)])

\* The API answers the request in flight.
GatewayRespond ==
  /\ pc = "awaiting"
  /\ response' = Some(upstream)
  /\ pc' = "responded"
  /\ UNCHANGED <<tool, seed, upstream, raw, args, err, errMessage, params, fetchCalls,
                 cards, result, registries, calls, stream>>

\* A tool body that catches the gateway's exception and returns.
ResumeSwallowError(name, newCards, newResult) ==
  /\ tool = name
  /\ pc = "responded"
  /\ IF FetchJson(Get(response)).raised # ""
     THEN /\ cards' = << >>
          /\ result' = Some([kind |-> "no_results"])
     ELSE /\ cards' = newCards
          /\ result' = Some(newResult)
  /\ pc' = "returned"
  /\ UNCHANGED <<tool, seed, upstream, raw, args, err, errMessage, params, fetchCalls,
                 response, registries, calls, stream>>

\* fetch_json returns or raises, and the tool body runs to its end.
Resume(name, newCards, newResult) ==
  /\ tool = name
  /\ pc = "responded"
  /\ IF FetchJson(Get(response)).raised # ""
     THEN /\ err' = FetchJson(Get(response)).raised
          /\ errMessage' = FetchJson(Get(response)).message
          /\ pc' = "raised"
          /\ UNCHANGED <<cards, result>>
     ELSE /\ cards' = newCards
          /\ result' = Some(newResult)
          /\ pc' = "returned"
          /\ UNCHANGED <<err, errMessage>>
  /\ UNCHANGED <<tool, seed, upstream, raw, args, params, fetchCalls, response,
                 registries, calls, stream>>

Data == Get(FetchJson(Get(response)).data)

ProgramsResume ==
  Resume("programs", GroupRows(Data.results, << >>),
         FormatPrograms(GroupRows(Data.results, << >>), Data, Get(args)))
SchoolsResume ==
  Resume("schools", SchoolCards(Data.results), FormatSchools(Data, Get(args)))
DetailResume == Resume("detail", << >>, FormatDetail(Data, Get(args)))

Next ==
  \/ ProgramsValidate
  \/ ProgramsRequest
  \/ ProgramsResume
  \/ SchoolsValidate
  \/ SchoolsRequest
  \/ SchoolsResume
  \/ DetailValidate
  \/ DetailRequest
  \/ DetailResume
  \/ GatewayRespond

Spec == Init /\ [][Next]_vars

(***************************************************************************)
(* Several invocations in flight in one process.  The tools are coroutines *)
(* on one event loop: an invocation runs without interruption up to its    *)
(* await of fetch_json and again from the return of fetch_json to its end; *)
(* between the two, the other invocations run.  Everything a tool body     *)
(* writes is a local of that call (params, by_id, cards, summary_lines).   *)
(***************************************************************************)
NumCalls == 2

Invocations == 1..NumCalls

ConcScenarios ==
  {[tool |-> "schools", raw |-> [SchoolsBase EXCEPT !.control = Some("private")],
    upstream |-> OkResponse([results |-> <<r>>, metadata |-> None])] :
     r \in {x \in SchoolRowPool : x.name = Some(<<"Alpha">>)}}
  \cup {[tool |-> "schools", raw |-> [SchoolsBase EXCEPT !.profiles = <<"costs", "basic">>],
         upstream |-> rs] : rs \in {x \in FailureResponses : x.status = 500}}
  \cup {[tool |-> "programs", raw |-> ProgramsBase,
         upstream |-> OkResponse([results |-> <<r, r>>, metadata |-> None])] :
          r \in {x \in ProgramRowPool : x.title = Some(<<"C", "S">>) /\ x.id = Some(10)}}
  \cup {[tool |-> "programs", raw |-> [ProgramsBase EXCEPT !.control = Some("public")],
         upstream |-> rs] : rs \in {x \in FailureResponses : x.timeout}}
  \cup {[tool |-> "detail", raw |-> DetailBase,
         upstream |-> OkResponse([results |-> <<r>>, metadata |-> None])] :
          r \in {x \in DetailRowPool : x.name # None}}
  \cup {[tool |-> "detail", raw |-> [DetailBase EXCEPT !.ids = None],
         upstream |-> OkResponse([results |-> << >>, metadata |-> None])]}

\* The framework builds the argument model of the tool called.
ValidateTool(name, values) ==
  CASE name = "programs" -> ValidatePrograms(values)
    [] name = "schools"  -> ValidateSchools(values)
    [] name = "detail"   -> ValidateDetail(values)

\* The tool body up to its await.
BuildTool(name, a, hashSeed) ==
  CASE name = "programs" -> [raised |-> "", params |-> BuildProgramsParams(a)]
    [] name = "schools"  -> BuildSchoolsParams(a, hashSeed)
    [] name = "detail"   -> [raised |-> "", params |-> BuildDetailParams(a, hashSeed)]

\* The tool body after its await.
FinishTool(name, data, a) ==
  CASE name = "programs" ->
         [cards |-> GroupRows(data.results, << >>),
          result |-> FormatPrograms(GroupRows(data.results, << >>), data, a)]
    [] name = "schools" ->
         [cards |-> SchoolCards(data.results), result |-> FormatSchools(data, a)]
    [] name = "detail" -> [cards |-> << >>, result |-> FormatDetail(data, a)]

InitConc ==
  /\ seed \in 0..(NumSeeds - 1)
  /\ registries = Registries
  /\ stream = StreamIdle
  /\ calls \in [Invocations ->
                  {[tool |-> sc.tool, raw |-> sc.raw, upstream |-> sc.upstream,
                    pc |-> "call", args |-> None, err |-> "", errMessage |-> << >>,
                    params |-> EmptyDict, fetchCalls |-> 0, response |-> None,
                    cards |-> << >>, result |-> None] : sc \in ConcScenarios}]
  /\ tool = "none"
  /\ upstream = None
  /\ pc = "idle"
  /\ raw = None
  /\ args = None
  /\ err = ""
  /\ errMessage = << >>
  /\ params = EmptyDict
  /\ fetchCalls = 0
  /\ response = None
  /\ cards = << >>
  /\ result = None

ConcValidate(i) ==
  LET c == calls[i]
      validation == ValidateTool(c.tool, c.raw)
  IN /\ c.pc = "call"
     /\ calls' = [calls EXCEPT ![i] =
                    [c EXCEPT !.args = validation.args, !.err = validation.err,
                              !.pc = IF validation.err = "" THEN "validated"
                                     ELSE "rejected"]]
     /\ UNCHANGED <<seed, single, registries, stream>>

\* A tool body that fills one dictionary kept at module level.
ConcRequestSharedParams(i) ==
  LET c == calls[i]
      built == BuildTool(c.tool, Get(c.args), seed)
      shared == IF \E j \in Invocations : calls[j].fetchCalls > 0
                THEN calls[CHOOSE j \in Invocations : calls[j].fetchCalls > 0].params
                ELSE EmptyDict
  IN /\ c.pc = "validated"
     /\ calls' = [calls EXCEPT ![i] =
                    [c EXCEPT !.params = built.params @@ shared,
                              !.fetchCalls = c.fetchCalls + 1, !.pc = "awaiting"]]
     /\ UNCHANGED <<seed, single, registries, stream>>

ConcRequest(i) ==
  LET c == calls[i]
      built == BuildTool(c.tool, Get(c.args), seed)
  IN /\ c.pc = "validated"
     /\ calls' = [calls EXCEPT ![i] =
                    IF built.raised = ""
                    THEN [c EXCEPT !.params = built.params,
                                   !.fetchCalls = c.fetchCalls + 1, !.pc = "awaiting"]
                    ELSE [c EXCEPT !.err = built.raised, !.pc = "raised"]]
     /\ UNCHANGED <<seed, single, registries, stream>>

ConcRespond(i) ==
  LET c == calls[i]
  IN /\ c.pc = "awaiting"
     /\ calls' = [calls EXCEPT ![i] =
                    [c EXCEPT !.response = Some(c.upstream), !.pc = "responded"]]
     /\ UNCHANGED <<seed, single, registries, stream>>

ConcResume(i) ==
  LET c == calls[i]
      got == FetchJson(Get(c.response))
      done == FinishTool(c.tool, Get(got.data), Get(c.args))
  IN /\ c.pc = "responded"
     /\ calls' = [calls EXCEPT ![i] =
                    IF got.raised # ""
                    THEN [c EXCEPT !.err = got.raised, !.errMessage = got.message,
                                   !.pc = "raised"]
                    ELSE [c EXCEPT !.cards = done.cards, !.result = Some(done.result),
                                   !.pc = "returned"]]
     /\ UNCHANGED <<seed, single, registries, stream>>

\* The task of an invocation is cancelled while it waits in fetch_json:
\* CancelledError is raised at its await.
ConcCancel(i) ==
  LET c == calls[i]
  IN /\ c.pc \in {"awaiting", "responded"}
     /\ calls' = [calls EXCEPT ![i] = [c EXCEPT !.err = "CancelledError",
                                                !.pc = "cancelled"]]
     /\ UNCHANGED <<seed, single, registries, stream>>

NextConc ==
  \E i \in Invocations :
    \/ ConcValidate(i)
    \/ ConcRequest(i)
    \/ ConcRespond(i)
    \/ ConcResume(i)
    \/ ConcCancel(i)

SpecConc == InitConc /\ [][NextConc]_vars

(***************************************************************************)
(* web_app.py: one response of POST /chat/stream.  The agent's stream is   *)
(* the environment: it gives events, ends, or raises; the response can be  *)
(* cancelled (the client went away) while the generator is suspended.      *)
(***************************************************************************)
MaxEvents == 3

\* The keys of an agent event that the generator looks at.
AgentEvents ==
  [init_event_loop : BOOLEAN, start_event_loop : BOOLEAN,
   message : {"absent", "with_role", "without_role"},
   data : {None, Some(<< >>), Some(<<"Hello">>)},
   current_tool_use : {"absent", "none", "without_name", "named"},
   result : BOOLEAN, force_stop : BOOLEAN]

\* The lifecycle prints: event['message']['role'] raises KeyError when the
\* message has no role and the earlier branches did not take the event.
LifecycleRaises(e) ==
  ~e.init_event_loop /\ ~e.start_event_loop /\ e.message = "without_role"

\* "current_tool_use" in event and event["current_tool_use"].get("name"):
\* AttributeError when the value is None.
ToolUseRaises(e) == e.current_tool_use = "none"

HandlingRaises(e) == LifecycleRaises(e) \/ ToolUseRaises(e)

\* The if/elif chain with a separate if for the force-stop branch.
OutgoingForceStopToo(e) ==
  (IF TruthyStr(e.data) THEN <<"text">>
   ELSE IF e.current_tool_use = "named" THEN <<"tool">>
   ELSE IF e.result THEN <<"complete">>
   ELSE << >>)
  \o (IF e.force_stop THEN <<"error">> ELSE << >>)

\* The if/elif chain: the types of the events yielded for an agent event
\* ("tool" stands for the type the code writes with a wrench sign before it).
Outgoing(e) ==
  IF TruthyStr(e.data) THEN <<"text">>
  ELSE IF e.current_tool_use = "named" THEN <<"tool">>
  ELSE IF e.result THEN <<"complete">>
  ELSE IF e.force_stop THEN <<"error">>
  ELSE << >>

InitStream ==
  /\ stream = [StreamIdle EXCEPT !.pc = "start"]
  /\ seed = 0
  /\ registries = Registries
  /\ calls = << >>
  /\ tool = "none"
  /\ upstream = None
  /\ pc = "idle"
  /\ raw = None
  /\ args = None
  /\ err = ""
  /\ errMessage = << >>
  /\ params = EmptyDict
  /\ fetchCalls = 0
  /\ response = None
  /\ cards = << >>
  /\ result = None

\* The initial status event.
StreamStatus ==
  /\ stream.pc = "start"
  /\ stream' = [stream EXCEPT !.pc = "streaming", !.sent = Append(@, "status")]
  /\ UNCHANGED <<seed, single, registries, calls>>

\* One pass of the body of "async for event in agent.stream_async(...)"; an
\* exception in the body goes to the except clause, which yields an error
\* event and ends the generator.
StreamAgentEvent ==
  /\ stream.pc = "streaming"
  /\ stream.consumed < MaxEvents
  /\ \E e \in AgentEvents :
       stream' = IF HandlingRaises(e)
                 THEN [stream EXCEPT !.consumed = @ + 1, !.sent = Append(@, "error"),
                                     !.raised = "Exception", !.pc = "closed"]
                 ELSE [stream EXCEPT !.consumed = @ + 1, !.sent = @ \o Outgoing(e)]
  /\ UNCHANGED <<seed, single, registries, calls>>

\* The agent's stream is exhausted: the final completion signal.
StreamAgentEnds ==
  /\ stream.pc = "streaming"
  /\ stream' = [stream EXCEPT !.sent = Append(@, "done"), !.pc = "closed"]
  /\ UNCHANGED <<seed, single, registries, calls>>

\* agent.stream_async raises an Exception: the except clause.
StreamAgentRaises ==
  /\ stream.pc = "streaming"
  /\ stream' = [stream EXCEPT !.sent = Append(@, "error"), !.raised = "Exception",
                              !.pc = "closed"]
  /\ UNCHANGED <<seed, single, registries, calls>>

\* The response's task is cancelled while the generator is suspended:
\* CancelledError is a BaseException, "except Exception" does not catch it.
StreamCancelled ==
  /\ stream.pc = "streaming"
  /\ stream' = [stream EXCEPT !.raised = "CancelledError", !.pc = "cancelled"]
  /\ UNCHANGED <<seed, single, registries, calls>>

NextStream ==
  \/ StreamStatus
  \/ StreamAgentEvent
  \/ StreamAgentEnds
  \/ StreamAgentRaises
  \/ StreamCancelled

SpecStream == InitStream /\ [][NextStream]_vars

(***************************************************************************)
(* Properties.                                                             *)
(***************************************************************************)
ParamsBuilt == pc \in {"awaiting", "responded", "returned", "raised"} /\ fetchCalls > 0

\* The rows of the document the API returned (in a state after the return).
Rows == Get(upstream.json).results

RowIds == {Get(Rows[i].id) : i \in {j \in 1..Len(Rows) : Rows[j].id # None}}

FirstRow(id) ==
  CHOOSE i \in 1..Len(Rows) :
    Rows[i].id = Some(id) /\ \A j \in 1..(i - 1) : Rows[j].id # Some(id)

\* The program entries of the rows of institution id, in row order.
EntriesOf(id) ==
  LET mine == SelectSeq(Rows, LAMBDA r : r.id = Some(id) /\ HasCipOrTitle(RowProgram(r)))
  IN [i \in 1..Len(mine) |-> RowProgram(mine[i])]

\* C1: after a program search returns, there is exactly one card per distinct
\* institution id of the rows, the cards are in the order of each id's first
\* row, and each card's programs are the program entries of the rows with its
\* id, in row order.
C1_GroupingOrderPreserving ==
  (tool = "programs" /\ pc = "returned") =>
    /\ \A id \in RowIds : Cardinality({k \in 1..Len(cards) : cards[k].id = id}) = 1
    /\ \A k \in 1..Len(cards) : cards[k].id \in RowIds
    /\ \A k1, k2 \in 1..Len(cards) :
         k1 < k2 => FirstRow(cards[k1].id) < FirstRow(cards[k2].id)
    /\ \A k \in 1..Len(cards) : cards[k].programs = EntriesOf(cards[k].id)

\* Rows with ids [10, 11, 10], each with a program, gave cards [10, 11] and
\* card 10 holds two entries.
C1_Witness ==
  /\ tool = "programs" /\ pc = "returned"
  /\ Len(Rows) = 3
  /\ <<Rows[1].id, Rows[2].id, Rows[3].id>> = <<Some(10), Some(11), Some(10)>>
  /\ \A i \in 1..3 : HasCipOrTitle(RowProgram(Rows[i]))
  /\ Len(cards) = 2 /\ cards[1].id = 10 /\ cards[2].id = 11
  /\ cards[1].programs = <<RowProgram(Rows[1]), RowProgram(Rows[3])>>

CredentialInKey == "latest.programs.cip_6_digit.credential__in"

\* The merge the documentation describes: the numeric codes, then the codes of
\* the named levels, duplicates removed, first-seen order kept.
DocumentedMerge(values) ==
  Dedupe((IF values.award_levels # None THEN Get(values.award_levels) ELSE << >>)
         \o (IF values.award_levels_named # None
             THEN NamedCodes(Get(values.award_levels_named)) ELSE << >>), {})

\* C2: when the named award levels of a validated program filter resolve to a
\* non-empty code list, the built parameters hold the credential in-list
\* filter, equal to the comma-joined merged codes.
C2_NamedLevelsBuildCredentialFilter ==
  (tool = "programs" /\ ParamsBuilt
   /\ raw.award_levels_named # None
   /\ NamedCodes(Get(raw.award_levels_named)) # << >>) =>
    /\ HasKey(params, CredentialInKey)
    /\ params[CredentialInKey] = JoinInts(DocumentedMerge(raw))

\* C3: the validated award-level list is the numeric codes followed by the
\* codes of the named levels, duplicates removed and first-seen order kept.
C3_MergeNumericThenNamed ==
  (tool = "programs" /\ args # None) =>
    (IF Get(args).award_levels = None THEN << >> ELSE Get(Get(args).award_levels))
      = DocumentedMerge(raw)

\* Exactly one of the location modes state-only, city+state, coordinates is
\* populated; an empty string is read as populated or as absent, whichever
\* favours the filter.
ExactlyOneModeNotNone ==
  LET st == raw.state # None
      ci == raw.city # None
      la == raw.latitude # None
      lo == raw.longitude # None
  IN \/ st /\ ~ci /\ ~la /\ ~lo
     \/ st /\ ci /\ ~la /\ ~lo
     \/ la /\ lo /\ ~st /\ ~ci

ExactlyOneModeTruthy ==
  LET st == TruthyStr(raw.state)
      ci == TruthyStr(raw.city)
      la == raw.latitude # None
      lo == raw.longitude # None
  IN \/ st /\ ~ci /\ ~la /\ ~lo
     \/ st /\ ci /\ ~la /\ ~lo
     \/ la /\ lo /\ ~st /\ ~ci

ExactlyOneModePopulated == ExactlyOneModeNotNone \/ ExactlyOneModeTruthy

\* C4: a school-search filter passes validation only when exactly one of the
\* location modes state-only, city+state, coordinates is populated.
C4_ExactlyOneLocationMode ==
  (tool = "schools" /\ args # None) => ExactlyOneModePopulated

HalfCoordinates == (raw.latitude = None) # (raw.longitude = None)

\* C5 as stated: a school-search filter with only one of latitude and longitude
\* fails with the 'both latitude and longitude are required' error, whatever
\* its state and city.
C5_HalfCoordinatesAlwaysBothError ==
  (tool = "schools" /\ pc # "call" /\ HalfCoordinates) =>
    (pc = "rejected" /\ err = ErrBothLatLon)

\* C5, amended: a school-search filter with only one of latitude and longitude
\* fails validation; the error is the 'both latitude and longitude are required'
\* error unless a non-empty city and a non-empty state are given too, and then
\* it is the 'exactly one location mode' error.
C5_HalfCoordinatesRejected ==
  (tool = "schools" /\ pc # "call" /\ HalfCoordinates) =>
    /\ pc = "rejected"
    /\ args = None
    /\ err = IF TruthyStr(raw.city) /\ TruthyStr(raw.state)
             THEN ErrLocationMode ELSE ErrBothLatLon

\* A filter with a latitude, no longitude and a state was rejected with the
\* 'both are required' error.
C5_Witness ==
  /\ tool = "schools" /\ pc = "rejected"
  /\ raw.latitude # None /\ raw.longitude = None /\ raw.state = Some(S_ny)
  /\ err = ErrBothLatLon

\* Blank after trimming: absent, empty or whitespace-only.
Blank(o) == o = None \/ Strip(Get(o)) = << >>

\* C6: a program filter whose classification-code prefix and title keyword are
\* both blank after trimming fails validation, and one supplying either alone
\* as a non-blank value is not rejected for a missing filter.
C6_BlankFiltersRejected ==
  (tool = "programs" /\ pc # "call") =>
    /\ (Blank(raw.cip_prefix) /\ Blank(raw.program_text)) => pc = "rejected"
    /\ (Blank(raw.cip_prefix) # Blank(raw.program_text)) => err # ErrNoFilter

\* The requests the validation constraints rule out: a location-mode
\* combination other than exactly one mode, no non-blank program filter, an
\* empty identifier list.
ViolatesConstraint ==
  \/ tool = "schools" /\ ~ExactlyOneModePopulated
  \/ tool = "programs" /\ Blank(raw.cip_prefix) /\ Blank(raw.program_text)
  \/ tool = "detail" /\ raw.ids = Some(<< >>)

\* C7: no fetch_json call is issued for a request that violates a validation
\* constraint.
C7_ValidationFailsFast == ViolatesConstraint => fetchCalls = 0

\* C8: a school-detail request with an empty identifier list fails validation
\* and no id__in parameter is built for it.
C8_EmptyIdsRejected ==
  (tool = "detail" /\ raw.ids = Some(<< >>) /\ pc # "call") =>
    (pc = "rejected" /\ ~HasKey(params, "id__in"))

NotEmpty(o) == o # None /\ Len(Get(o)) > 0

\* The rows of institution id whose classification code or title is not blank
\* after trimming.
RowsNotBlank(id) ==
  {i \in 1..Len(Rows) :
     Rows[i].id = Some(id) /\ (~Blank(Rows[i].cip) \/ ~Blank(Rows[i].title))}

\* The rows of institution id whose classification code or title is present
\* and not the empty string.
RowsNotEmpty(id) ==
  {i \in 1..Len(Rows) :
     Rows[i].id = Some(id) /\ (NotEmpty(Rows[i].cip) \/ NotEmpty(Rows[i].title))}

\* C9 as stated: a row adds a program entry if and only if its classification
\* code or its title is non-blank, whitespace-only counting as blank; every
\* institution with a row appears.
C9_BlankRowsAddNoEntry ==
  (tool = "programs" /\ pc = "returned") =>
    /\ \A id \in RowIds : \E k \in 1..Len(cards) : cards[k].id = id
    /\ \A k \in 1..Len(cards) :
         Len(cards[k].programs) = Cardinality(RowsNotBlank(cards[k].id))

\* C9, amended: a row adds a program entry if and only if its classification
\* code or its title is present and not the empty string (a whitespace-only
\* value counts as present); every institution with a row appears, also when
\* none of its rows adds an entry.
C9_EmptyRowsAddNoEntry ==
  (tool = "programs" /\ pc = "returned") =>
    /\ \A id \in RowIds : \E k \in 1..Len(cards) : cards[k].id = id
    /\ \A k \in 1..Len(cards) :
         Len(cards[k].programs) = Cardinality(RowsNotEmpty(cards[k].id))

\* Institution 10 had a row with a program and a row with an empty code and no
\* title: its card holds one entry.
C9_Witness ==
  /\ tool = "programs" /\ pc = "returned"
  /\ Len(Rows) = 2
  /\ Rows[1].id = Some(10) /\ Rows[2].id = Some(10)
  /\ NotEmpty(Rows[1].cip)
  /\ Rows[2].cip = Some(<< >>) /\ Rows[2].title = None
  /\ Len(cards) = 1 /\ Len(cards[1].programs) = 1

ZeroRows == upstream.json # None /\ ~upstream.timeout /\ upstream.status = 200
            /\ Get(upstream.json).results = << >>

IsInfix(sub, s) ==
  \E i \in 1..(Len(s) - Len(sub) + 1) : SubSeq(s, i, i + Len(sub) - 1) = sub

IsSuffix(sub, s) ==
  Len(sub) <= Len(s) /\ SubSeq(s, Len(s) - Len(sub) + 1, Len(s)) = sub

\* What the claim asks of a gateway outcome g for the response r.
GatewayContract(g, r) ==
  /\ (~r.timeout /\ r.status # 200) =>
       /\ g.raised # ""
       /\ IsInfix(IntStr(r.status), g.message)
       /\ IsSuffix(r.text, g.message)
  /\ (~r.timeout /\ r.status = 200 /\ r.json = None) => g.raised # ""
  /\ g.raised = "" => (~r.timeout /\ r.status = 200 /\ r.json # None /\ g.data = r.json)

Answered == pc \in {"returned", "raised"} /\ response # None

\* C11: once the API has answered, a non-200 status has become an error whose
\* message holds the status code and ends with the body text, a 200 status
\* with a body that is not JSON has become an error, and the tool got a
\* document (and returned) only for a 200 status with a JSON body; the
\* synchronous gateway gives the same outcome for the same response.
C11_GatewayErrors ==
  Answered =>
    /\ GatewayContract([raised |-> IF pc = "raised" THEN err ELSE "",
                        message |-> errMessage,
                        data |-> IF pc = "raised" THEN None ELSE Get(response).json],
                       Get(response))
    /\ GatewayContract(FetchJsonSync(Get(response)), Get(response))
    /\ (pc = "returned") = (FetchJson(Get(response)).raised = "")

C11_Witness ==
  /\ Answered
  /\ pc = "raised"
  /\ Get(response).status = 404
  /\ errMessage = <<"College Scorecard API error ", "4", "0", "4", ": ", "Not Found">>

(***************************************************************************)
(* C12.  One fetch per invocation; gateway errors propagate.               *)
(***************************************************************************)
GatewayFailed == Answered /\ (Get(response).timeout \/ Get(response).status # 200
                              \/ Get(response).json = None)

\* C12: an invocation never issues a second fetch_json call, and when the
\* gateway has raised, the invocation ends raising that same exception with
\* its message, after exactly one call and without any cards or result.
C12_SingleFetchErrorsPropagate ==
  /\ fetchCalls <= 1
  /\ GatewayFailed =>
       /\ pc = "raised"
       /\ fetchCalls = 1
       /\ result = None
       /\ cards = << >>
       /\ err = (IF Get(response).timeout THEN "TimeoutError"
                 ELSE IF Get(response).status # 200 THEN "RuntimeError"
                 ELSE "ContentTypeError")
       /\ (~Get(response).timeout /\ Get(response).status # 200) =>
            errMessage = ApiErrorMessage(Get(response).status, Get(response).text)

C12_Witness ==
  /\ GatewayFailed
  /\ tool = "schools"
  /\ Get(response).status = 500
  /\ pc = "raised"
  /\ fetchCalls = 1

(***************************************************************************)
(* C13.  The location parameters of schools_search.                        *)
(***************************************************************************)
LocationKeys == {"latitude", "longitude", "distance", "school.city", "school.state"}

LocationKeysBuilt == LocationKeys \cap DOMAIN params

\* '<integer>mi': decimal digits followed by the unit.
IsMiles(v, n) ==
  /\ Len(v) >= 3
  /\ SubSeq(v, Len(v) - 1, Len(v)) = <<"m", "i">>
  /\ \A i \in 1..(Len(v) - 2) : v[i] \in {Digits[d] : d \in 1..10}
  /\ SubSeq(v, 1, Len(v) - 2) = NatStr(n)

CoordinatesModeParams ==
  /\ LocationKeysBuilt = {"latitude", "longitude", "distance"}
  /\ params["latitude"] = Get(raw.latitude)
  /\ params["longitude"] = Get(raw.longitude)
  /\ IsMiles(params["distance"], raw.distance_mi)

CityStateModeParams ==
  /\ LocationKeysBuilt = {"school.city", "school.state"}
  /\ params["school.city"] = Get(raw.city)
  /\ params["school.state"] = Upper(Get(raw.state))

StateOnlyModeParams ==
  /\ LocationKeysBuilt = {"school.state"}
  /\ params["school.state"] = Upper(Get(raw.state))

\* C13: a validated school-search filter always gets its parameters built, and
\* they hold the location keys of one mode only: the coordinates with the
\* distance as '<integer>mi' when latitude and longitude are given, else city
\* as given and state uppercased when both are non-empty, else the state
\* uppercased alone; the state 'ny' is sent as 'NY'.
C13_LocationParamsOfOneMode ==
  /\ (tool = "schools" /\ pc = "raised") => response # None
  /\ (tool = "schools" /\ ParamsBuilt) =>
       /\ IF raw.latitude # None /\ raw.longitude # None THEN CoordinatesModeParams
          ELSE IF raw.city # None THEN CityStateModeParams
          ELSE StateOnlyModeParams
       /\ (HasKey(params, "school.state") /\ raw.state = Some(S_ny)) =>
            params["school.state"] = <<"N", "Y">>

C13_Witness ==
  /\ tool = "schools"
  /\ ParamsBuilt
  /\ raw.state = Some(S_ny)
  /\ raw.city = None
  /\ LocationKeysBuilt = {"school.state"}
  /\ params["school.state"] = <<"N", "Y">>

C13_WitnessCoordinates ==
  /\ tool = "schools"
  /\ ParamsBuilt
  /\ raw.state = Some(S_ny)
  /\ CoordinatesModeParams

(***************************************************************************)
(* C14, C15.  Pagination.                                                  *)
(***************************************************************************)
SearchTool == tool \in {"schools", "programs"}

Returned == pc = "returned" /\ result # None

MetadataOmitted == Get(response).json # None /\ Get(Get(response).json).metadata = None

PaginationParamsEmitted ==
  /\ HasKey(params, "page") /\ params["page"] = raw.page
  /\ HasKey(params, "_per_page") /\ params["_per_page"] = raw.per_page

\* The page index the returned value carries: the summary shows it 1-based.
ResultEchoesPage(p) ==
  /\ HasKey(Get(result), "showing_page")
  /\ Get(result).showing_page = p + 1

\* The page size the returned value carries.
ResultEchoesPageSize(n) ==
  \E k \in {"per_page", "page_size"} : HasKey(Get(result), k) /\ Get(result)[k] = n

\* C14: the parameters of a search hold page and _per_page as requested, and
\* when the response has no metadata the returned value carries the requested
\* page index and the requested page size.
C14_PaginationRoundTrips ==
  /\ (SearchTool /\ ParamsBuilt) => PaginationParamsEmitted
  /\ (SearchTool /\ Returned /\ MetadataOmitted) =>
       ResultEchoesPage(raw.page) /\ ResultEchoesPageSize(raw.per_page)

\* The half of C14 on the parameters alone.
C14_PaginationParams == (SearchTool /\ ParamsBuilt) => PaginationParamsEmitted

\* The page index is echoed whenever a summary is returned.
C14_PageEchoedInSummary ==
  (SearchTool /\ Returned /\ MetadataOmitted /\ Get(result).kind = "summary") =>
    ResultEchoesPage(raw.page)

MetadataBlock == Get(Get(response).json).metadata

MetaPresent(key) == MetadataBlock # None /\ Get(MetadataBlock)[key] # None

\* rows for school search, institution cards for program search
ReturnedEntities == IF tool = "schools" THEN Len(Rows) ELSE Len(cards)

ResultTotalIs(n) == HasKey(Get(result), "total") /\ Get(result).total = n

\* C15: the value a search returns takes total, page and page size from the
\* metadata block of the response where it has them; without them the total
\* is the number of returned entities and the page is the requested page.
C15_MetadataFromUpstreamOrDefaults ==
  (SearchTool /\ Returned) =>
    /\ IF MetaPresent("total") THEN ResultTotalIs(Get(Get(MetadataBlock).total))
       ELSE ResultTotalIs(ReturnedEntities)
    /\ IF MetaPresent("page") THEN ResultEchoesPage(Get(Get(MetadataBlock).page))
       ELSE ResultEchoesPage(raw.page)
    /\ MetaPresent("per_page") =>
         ResultEchoesPageSize(Get(Get(MetadataBlock).per_page))

\* What the code does do: total and page of a summary.
C15_SummaryTotalAndPage ==
  (SearchTool /\ Returned /\ Get(result).kind = "summary") =>
    /\ IF MetaPresent("total") THEN ResultTotalIs(Get(Get(MetadataBlock).total))
       ELSE ResultTotalIs(ReturnedEntities)
    /\ IF MetaPresent("page") THEN ResultEchoesPage(Get(Get(MetadataBlock).page))
       ELSE ResultEchoesPage(raw.page)

(***************************************************************************)
(* C16.  Invocations in flight together.                                   *)
(***************************************************************************)
\* What the invocation c produces when it runs alone in a process with the
\* same hash seed: its parameters, and its outcome for its response.
AloneParams(c) == BuildTool(c.tool, Get(ValidateTool(c.tool, c.raw).args), seed).params

AloneOutcome(c) ==
  LET got == FetchJson(c.upstream)
  IN IF got.raised # ""
     THEN [pc |-> "raised", err |-> got.raised, errMessage |-> got.message,
           cards |-> << >>, result |-> None]
     ELSE LET done == FinishTool(c.tool, Get(got.data),
                                 Get(ValidateTool(c.tool, c.raw).args))
          IN [pc |-> "returned", err |-> "", errMessage |-> << >>,
              cards |-> done.cards, result |-> Some(done.result)]

Outcome(c) ==
  [pc |-> c.pc, err |-> c.err, errMessage |-> c.errMessage, cards |-> c.cards,
   result |-> c.result]

\* C16: whatever the other invocations do meanwhile, an invocation that has
\* built its parameters has the parameters it builds alone, an invocation
\* that has ended otherwise than by its own cancellation has the outcome it
\* has alone, a cancelled one has no result, and the registries are as they
\* were at import.
C16_ConcurrentInvocationsIndependent ==
  /\ registries = Registries
  /\ \A i \in DOMAIN calls :
       LET c == calls[i]
       IN /\ c.fetchCalls > 0 => c.params = AloneParams(c)
          /\ c.fetchCalls <= 1
          /\ c.pc \in {"returned", "raised"} => Outcome(c) = AloneOutcome(c)
          /\ c.pc = "cancelled" => c.result = None /\ c.cards = << >>
          /\ c.pc = "rejected" => c.err = ValidateTool(c.tool, c.raw).err /\ c.fetchCalls = 0

\* One invocation was cancelled or failed at its network call and another one,
\* whose request was in flight at the same time, has returned its result.
C16_Witness ==
  /\ DOMAIN calls = Invocations
  /\ \E i, j \in Invocations :
       /\ i # j
       /\ calls[i].pc \in {"cancelled", "raised"}
       /\ calls[i].fetchCalls = 1
       /\ calls[j].pc = "returned"
       /\ calls[j].result # None
       /\ calls[j].params = AloneParams(calls[j])
       /\ calls[i].tool # calls[j].tool

(***************************************************************************)
(* C17, C18.  Named award levels and the empty merged list.                *)
(***************************************************************************)
NamedGiven == IF raw.award_levels_named = None THEN << >> ELSE Get(raw.award_levels_named)

NumericGiven == IF raw.award_levels = None THEN << >> ELSE Get(raw.award_levels)

ValidatedLevels ==
  IF Get(args).award_levels = None THEN << >> ELSE Get(Get(args).award_levels)

Elems(s) == {s[k] : k \in 1..Len(s)}

\* The codes of a name, whatever its case; none for a name not in the map.
CodesOfName(name) ==
  IF AWARD_LEVELS_MAP(Lower(name)) = None THEN {}
  ELSE Elems(Get(AWARD_LEVELS_MAP(Lower(name))))

OtherwiseValid ==
  /\ AtLeastOneFilter(raw)
  /\ raw.page >= 0
  /\ raw.per_page >= 1 /\ raw.per_page <= 100

\* C17: a program-search filter with named award levels passes validation
\* whatever the names are, every name found in the map in any letter case has
\* its codes in the validated levels, and a name not in the map adds none.
C17_NamedLevelsCaseInsensitiveUnknownIgnored ==
  (tool = "programs" /\ pc # "call" /\ OtherwiseValid) =>
    /\ args # None
    /\ \A k \in 1..Len(NamedGiven) : CodesOfName(NamedGiven[k]) \subseteq Elems(ValidatedLevels)
    /\ Elems(ValidatedLevels) \subseteq
         Elems(NumericGiven) \cup UNION {CodesOfName(NamedGiven[k]) : k \in 1..Len(NamedGiven)}

\* What holds in the code: no list of names causes a validation error, and
\* no name adds a code.
C17_NamesNeverRejectedNeverAdded ==
  (tool = "programs" /\ pc # "call" /\ OtherwiseValid) =>
    /\ args # None
    /\ Elems(ValidatedLevels) \subseteq Elems(NumericGiven)

\* C18: a validated program filter never holds an empty award-level list, and
\* the parameters hold the credential in-list key exactly when the merge of
\* the numeric codes and the codes of the named levels is non-empty.
C18_EmptyMergeIsNoFilter ==
  /\ (tool = "programs" /\ args # None) => Get(args).award_levels # Some(<< >>)
  /\ (tool = "programs" /\ ParamsBuilt) =>
       (HasKey(params, CredentialInKey) <=> DocumentedMerge(raw) # << >>)

\* What holds in the code: the same with the numeric codes alone.
C18_EmptyNumericIsNoFilter ==
  /\ (tool = "programs" /\ args # None) => Get(args).award_levels # Some(<< >>)
  /\ (tool = "programs" /\ ParamsBuilt) =>
       (HasKey(params, CredentialInKey) <=> NumericGiven # << >>)

C18_EmptyListGiven ==
  tool = "programs" /\ ParamsBuilt /\ raw.award_levels = Some(<< >>)
  /\ Get(args).award_levels = None /\ ~HasKey(params, CredentialInKey)

(***************************************************************************)
(* C19, C20.  The optional filters of schools_search.                      *)
(***************************************************************************)
SizeRangeKey == "latest.student.size__range"

ControlParamAsGiven ==
  /\ HasKey(params, "school.control") <=> raw.control # None
  /\ raw.control # None =>
       params["school.control"] = (CASE Get(raw.control) = "public" -> 1
                                     [] Get(raw.control) = "private" -> 2
                                     [] Get(raw.control) = "for-profit" -> 3)

OnlineOnlyParamAsGiven ==
  /\ HasKey(params, "school.online_only") <=> raw.online_only # None
  /\ raw.online_only = Some(TRUE) => params["school.online_only"] = 1
  /\ raw.online_only = Some(FALSE) => params["school.online_only"] = 0

\* C19: the parameters of a school search hold school.control exactly when a
\* control type is given (as its code), the enrollment range exactly when a
\* minimum or a maximum is given, 0 included, and school.online_only exactly
\* when the flag is given, 1 for true and 0 for false.
C19_OptionalFiltersIffPresent ==
  (tool = "schools" /\ ParamsBuilt) =>
    /\ ControlParamAsGiven
    /\ HasKey(params, SizeRangeKey) <=> (raw.min_size # None \/ raw.max_size # None)
    /\ OnlineOnlyParamAsGiven

\* What holds in the code: the range is emitted exactly when a bound other
\* than 0 is given.
C19_RangeIffNonZeroBound ==
  (tool = "schools" /\ ParamsBuilt) =>
    /\ ControlParamAsGiven
    /\ HasKey(params, SizeRangeKey) <=>
         (raw.min_size \notin {None, Some(0)} \/ raw.max_size \notin {None, Some(0)})
    /\ OnlineOnlyParamAsGiven

RangeString(lo, hi) == IntStr(lo) \o <<".", ".">> \o IntStr(hi)

\* C20: an emitted enrollment range is 'low..high' with the minimum given or
\* else 0 as low and the maximum given, 0 included, or else 999999 as high.
C20_RangeBoundsAsGiven ==
  (tool = "schools" /\ ParamsBuilt /\ HasKey(params, SizeRangeKey)) =>
    params[SizeRangeKey] =
      RangeString(IF raw.min_size # None THEN Get(raw.min_size) ELSE 0,
                  IF raw.max_size # None THEN Get(raw.max_size) ELSE 999999)

\* What holds in the code: a maximum of 0 is replaced by the sentinel.
C20_RangeBoundsZeroAsAbsent ==
  (tool = "schools" /\ ParamsBuilt /\ HasKey(params, SizeRangeKey)) =>
    params[SizeRangeKey] =
      RangeString(IF raw.min_size # None THEN Get(raw.min_size) ELSE 0,
                  IF raw.max_size \notin {None, Some(0)} THEN Get(raw.max_size)
                  ELSE 999999)

(***************************************************************************)
(* C21, C22.  The fields parameter of schools_search and school_detail.    *)
(***************************************************************************)
FieldsTool == tool \in {"schools", "detail"}

\* The fields the parameter names, in the order sent.
FieldsSent == IF params["fields"] = << >> THEN << >> ELSE Split(params["fields"])

\* The field set of a profile name in the registry of the tool called; a
\* name the registry of school_detail does not hold has no fields.
ProfileFieldSet(p) ==
  IF tool = "schools" THEN Elems(Split(FIELDSETS[p]))
  ELSE IF p \in DOMAIN PROFILES THEN Elems(Split(PROFILES[p]))
  ELSE {}

RequestedFieldSet == UNION {ProfileFieldSet(raw.profiles[k]) : k \in 1..Len(raw.profiles)}

\* C21: the fields parameter of a school search or a school detail request
\* names every field of every requested profile, no other field, and each
\* field once.
C21_FieldsAreUnionOfProfiles ==
  (FieldsTool /\ ParamsBuilt) =>
    /\ Elems(FieldsSent) = RequestedFieldSet
    /\ Len(FieldsSent) = Cardinality(RequestedFieldSet)

C21_Witness ==
  /\ FieldsTool
  /\ ParamsBuilt
  /\ Len(raw.profiles) = 2
  /\ raw.profiles[1] = raw.profiles[2]
  /\ Len(FieldsSent) = 7

C21_WitnessTwoProfiles ==
  /\ tool = "schools"
  /\ ParamsBuilt
  /\ raw.profiles = <<"costs", "basic">>
  /\ Len(FieldsSent) = 11

\* The fields string the same request gets in a process with hash seed sd.
FieldsStringUnderSeed(sd) ==
  IF tool = "schools" THEN BuildSchoolsParams(Get(args), sd).params["fields"]
  ELSE BuildDetailParams(Get(args), sd)["fields"]

\* C22: the fields string built for a request is the one every run builds for
\* that request, with the fields in the same order.
C22_FieldsStringSameOnEveryRun ==
  (FieldsTool /\ ParamsBuilt) =>
    \A sd \in 0..(NumSeeds - 1) : params["fields"] = FieldsStringUnderSeed(sd)

\* What holds in the code: every run sends the same fields, in some order.
C22_FieldSetSameOnEveryRun ==
  (FieldsTool /\ ParamsBuilt) =>
    \A sd \in 0..(NumSeeds - 1) :
      LET other == FieldsStringUnderSeed(sd)
      IN Elems(FieldsSent) = (IF other = << >> THEN {} ELSE Elems(Split(other)))

(***************************************************************************)
(* C23.  The sort parameter of schools_search.                             *)
(***************************************************************************)
\* C23: the parameters of a school search hold sort exactly when a sort field
\* is given; the value is the field name alone when the order is "asc" and
\* the field name followed by ":desc" otherwise.
C23_SortIffFieldGiven ==
  (tool = "schools" /\ ParamsBuilt) =>
    /\ HasKey(params, "sort") <=> raw.sort_by # None
    /\ (raw.sort_by # None /\ raw.sort_order = "asc") =>
         params["sort"] = <<Get(raw.sort_by)>>
    /\ (raw.sort_by # None /\ raw.sort_order # "asc") =>
         /\ Len(params["sort"]) = 3
         /\ params["sort"][1] = Get(raw.sort_by)
         /\ SubSeq(params["sort"], 2, 3) = <<":", "desc">>

C23_Witness ==
  /\ tool = "schools"
  /\ ParamsBuilt
  /\ raw.sort_by # None
  /\ raw.sort_order = "desc"
  /\ params["sort"] = <<"latest.cost.net_price.public", ":", "desc">>

C23_WitnessAscending ==
  /\ tool = "schools"
  /\ ParamsBuilt
  /\ raw.sort_by # None
  /\ raw.sort_order = "asc"
  /\ params["sort"] = <<"latest.cost.net_price.public">>

(***************************************************************************)
(* C24.  Rows of a program search without an institution identifier.       *)
(***************************************************************************)
RowsWithId == SelectSeq(Rows, LAMBDA r : r.id # None)

ProgramsReturned == tool = "programs" /\ pc = "returned"

\* The program entries of all cards together.
AllEntries == Concat([k \in 1..Len(cards) |-> cards[k].programs])

\* C24: the cards of a program search are those of the rows that have an
\* identifier, as if the other rows were not in the response: a row without
\* identifier gives no card and no entry, and every row with an identifier,
\* 0 included, has its card.
C24_RowsWithoutIdDropped ==
  ProgramsReturned =>
    /\ cards = GroupRows(RowsWithId, << >>)
    /\ {cards[k].id : k \in 1..Len(cards)} = {Get(r.id) : r \in Elems(RowsWithId)}
    /\ Len(AllEntries)
         = Len(SelectSeq(RowsWithId, LAMBDA r : HasCipOrTitle(RowProgram(r))))

C24_Witness ==
  /\ ProgramsReturned
  /\ Len(Rows) = 3
  /\ Rows[1].id = Some(10)
  /\ Rows[2].id = None /\ HasCipOrTitle(RowProgram(Rows[2]))
  /\ Rows[3].id = Some(0)
  /\ Len(cards) = 2 /\ cards[1].id = 10 /\ cards[2].id = 0
  /\ Len(AllEntries) = 1

(***************************************************************************)
(* C25.  The output of school_detail.                                      *)
(***************************************************************************)
DetailsReturned ==
  tool = "detail" /\ pc = "returned" /\ Get(result).kind = "details"

\* The fields of a row that the output can show, with the key each has in
\* the row and in the output of the model.
DetailFieldIds ==
  [name |-> <<"school.name">>,
   admission_rate |-> <<"latest.admissions.admission_rate.overall">>,
   tuition_in_state |-> <<"latest.cost.tuition.in_state">>,
   tuition_out_of_state |-> <<"latest.cost.tuition.out_of_state">>,
   earnings |-> <<"latest.earnings.10_yrs_after_entry.median">>]

C25_TruthyFieldsShown ==
  DetailsReturned =>
    \A k \in 1..Len(Rows) : \A f \in DOMAIN DetailFieldIds :
      Get(result).items[k][f]
        = (IF (IF f = "name" THEN TruthyStr(Rows[k][f]) ELSE TruthyInt(Rows[k][f]))
           THEN Rows[k][f] ELSE None)

(***************************************************************************)
(* C26.  Unknown profile names in school_detail.                           *)
(***************************************************************************)
KnownProfileNames == {"basic", "admissions", "costs", "outcomes"}

KnownRequested == SelectSeq(raw.profiles, LAMBDA p : p \in KnownProfileNames)

HasUnknownProfile == \E k \in 1..Len(raw.profiles) : raw.profiles[k] \notin KnownProfileNames

\* C26: a school detail request that names an unknown profile is validated
\* and built as the same request without that name: its fields are those of
\* the known profiles it names, and none when it names no known profile.
C26_UnknownProfileContributesNothing ==
  (tool = "detail" /\ HasUnknownProfile /\ raw.ids # None) =>
    /\ pc \notin {"rejected"}
    /\ err = "" \/ response # None
    /\ ParamsBuilt =>
         /\ Elems(FieldsSent)
              = UNION {Elems(Split(PROFILES[KnownRequested[k]])) : k \in 1..Len(KnownRequested)}
         /\ KnownRequested = << >> => params["fields"] = << >>

C26_Witness ==
  /\ tool = "detail"
  /\ ParamsBuilt
  /\ raw.profiles = <<"bogus", "costs">>
  /\ Len(FieldsSent) = 4

C26_WitnessAllUnknown ==
  /\ tool = "detail"
  /\ pc = "returned"
  /\ raw.profiles = <<"bogus">>
  /\ params["fields"] = << >>

SchoolsValidated == tool = "schools" /\ args # None

\* C28: a school-search filter that passed validation has both coordinates,
\* or a non-empty city and state, or a state; its parameters are built
\* without an exception, and the branch that built them had what it reads.
C28_ValidatedFiltersBuild ==
  SchoolsValidated =>
    /\ \/ raw.latitude # None /\ raw.longitude # None
       \/ TruthyStr(raw.city) /\ TruthyStr(raw.state)
       \/ raw.state # None
    /\ err # "AttributeError"
    /\ pc = "raised" => response # None
    /\ pc # "validated" => fetchCalls = 1
    /\ HasKey(params, "latitude") => raw.latitude # None /\ raw.longitude # None
    /\ HasKey(params, "school.city") => raw.city # None /\ raw.state # None
    /\ HasKey(params, "school.state") => raw.state # None

C28_Witness ==
  /\ SchoolsValidated
  /\ ParamsBuilt
  /\ raw.latitude # None /\ raw.longitude # None /\ raw.city # None /\ raw.state = None
  /\ HasKey(params, "latitude")
  /\ ~HasKey(params, "school.city")

C28_WitnessCityState ==
  /\ SchoolsValidated
  /\ ParamsBuilt
  /\ raw.city = Some(<<"Rochester">>)
  /\ params["school.city"] = <<"Rochester">>
  /\ params["school.state"] = <<"N", "Y">>

(***************************************************************************)
(* C29.  Cards are made per institution, whatever the program data.        *)
(***************************************************************************)
CardPerIdFromFirstRow ==
  /\ Len(cards) = Cardinality(RowIds)
  /\ {cards[k].id : k \in 1..Len(cards)} = RowIds
  /\ \A k \in 1..Len(cards) :
       LET first == Rows[FirstRow(cards[k].id)]
       IN /\ cards[k].name = first.name
          /\ cards[k].city = first.city
          /\ cards[k].state = first.state

\* C29 as stated: one card per distinct institution id of the rows, with name,
\* city and state of the first row of that id, and with an empty program list
\* when all rows of the id have blank program data, whitespace-only counting
\* as blank.
C29_CardsIndependentOfBlankPrograms ==
  ProgramsReturned =>
    /\ CardPerIdFromFirstRow
    /\ \A k \in 1..Len(cards) :
         RowsNotBlank(cards[k].id) = {} => cards[k].programs = << >>

\* C29, amended: the same, the program list being empty when all rows of the
\* id have neither a classification code nor a title other than None and the
\* empty string (a whitespace-only value is program data).
C29_CardsIndependentOfEmptyPrograms ==
  ProgramsReturned =>
    /\ CardPerIdFromFirstRow
    /\ \A k \in 1..Len(cards) :
         RowsNotEmpty(cards[k].id) = {} <=> cards[k].programs = << >>

\* Institution 10 has two rows with different names and institution 0 a row
\* without program data: card 10 has the first name, card 0 no programs.
C29_Witness ==
  /\ ProgramsReturned
  /\ Len(Rows) = 3
  /\ Rows[1].id = Some(10) /\ Rows[2].id = Some(10) /\ Rows[3].id = Some(0)
  /\ Rows[1].name # Rows[2].name
  /\ RowsNotEmpty(0) = {}
  /\ Len(cards) = 2
  /\ cards[1].name = Rows[1].name
  /\ cards[2].id = 0 /\ cards[2].programs = << >>

(***************************************************************************)
(* C30.  The events of a /chat/stream response.                            *)
(***************************************************************************)
Count(seq, x) == Cardinality({k \in 1..Len(seq) : seq[k] = x})

LastSent == stream.sent[Len(stream.sent)]

StartsWithOneStatus ==
  stream.sent # << >> => stream.sent[1] = "status" /\ Count(stream.sent, "status") = 1

\* status first, then at most one event per agent event, then at most one
\* closing event
AtMostOnePerAgentEvent ==
  Len(stream.sent) <= 1 + stream.consumed + (IF stream.pc = "closed" THEN 1 ELSE 0)

EndsWithDone ==
  (stream.pc = "closed" /\ stream.raised = "") =>
    LastSent = "done" /\ Count(stream.sent, "done") = 1

\* C30 as stated: the response starts with one status event, an agent event
\* gives at most one event, a stream that ends without raising ends with
\* done, and whenever an exception was raised the last event is an error
\* event and no done event was sent.
C30_StreamEndsWithDoneOrError ==
  /\ StartsWithOneStatus
  /\ AtMostOnePerAgentEvent
  /\ EndsWithDone
  /\ stream.raised # "" => LastSent = "error" /\ Count(stream.sent, "done") = 0

\* C30, amended: the same for an exception that "except Exception" catches;
\* when the response is cancelled nothing more is sent, neither an error
\* event nor done.
C30_StreamEndsWithDoneOrErrorUnlessCancelled ==
  /\ StartsWithOneStatus
  /\ AtMostOnePerAgentEvent
  /\ EndsWithDone
  /\ stream.raised = "Exception" =>
       stream.pc = "closed" /\ LastSent = "error" /\ Count(stream.sent, "done") = 0
  /\ stream.raised = "CancelledError" =>
       stream.pc = "cancelled" /\ Count(stream.sent, "done") = 0
  /\ stream.pc \in {"closed", "cancelled"} => stream.sent # << >>

\* A force-stop error event was sent and the stream then ended with done.
C30_Witness ==
  /\ stream.pc = "closed"
  /\ stream.raised = ""
  /\ stream.sent = <<"status", "text", "error", "done">>

C30_WitnessException ==
  /\ stream.pc = "closed"
  /\ stream.raised = "Exception"
  /\ stream.sent = <<"status", "tool", "error">>

====
